---- MODULE Spec2Model ----
(***************************************************************************)
(* The CPU-task worker pool (class WorkerPool) of the repository: a fixed  *)
(* set of worker threads, an idle stack, a FIFO task queue, a per-task     *)
(* timer armed at dispatch, and shutdown.  The main thread is a single     *)
(* event loop, so every handler below is one atomic action; the worker     *)
(* threads and the timers run concurrently with it and are the source of   *)
(* the interleavings.                                                      *)
(***************************************************************************)
EXTENDS Integers, Sequences, FiniteSets, TLC

\* ------------------------------------------------------------------ bounds
MaxWorkers == 2        \* largest explicit config.size tried
MaxCpus == 3           \* largest cpus().length tried
MaxTasks == 3          \* number of execute() calls made
MaxShutdownCalls == 2  \* number of shutdown() calls made
MaxObservedTasks == 2  \* execute() calls made while results and status are observed
MaxFib == 10           \* largest n given to the fibonacci handlers
MaxPrime == 30         \* largest number given to isPrime and generatePrimes
MaxLen == 3            \* longest array given to the sort handler
MaxElem == 1           \* largest number in an array to sort
MaxStr == 3            \* longest string given to the compress handler
MaxDim == 2            \* largest row or column count of a matrix
MaxItems == 2          \* longest items array given to processJson
MaxClock == 1          \* latest reading of Date.now()

SizeConfigs == (-1)..MaxWorkers   \* config.size; 0 also stands for "absent"
CpuCounts == 1..MaxCpus
TaskIds == 1..MaxTasks
NoTask == 0
NoWorker == 0

VARIABLES
  workers,           \* this.workers: sequence of unit ids
  taskQueue,         \* this.taskQueue: sequence of task ids (QueuedTask)
  availableWorkers,  \* this.availableWorkers: stack of unit ids
  isShutdown,        \* this.isShutdown
  promise,           \* task id -> state of the promise execute() returned
  timer,             \* task id -> TRUE while its setTimeout is armed
  listener,          \* unit -> task whose once('message'/'error') listeners are attached
  dispatchedTo,      \* task id -> unit captured by its runTask closure
  thread,            \* unit -> "alive" | "terminating" | "crashed" | "exited"
  running,           \* unit -> task message the thread is working on
  outbox,            \* unit -> task whose result message is posted, not yet delivered
  submitted,         \* number of execute() calls made so far
  awaitingShutdown,  \* shutdown() calls suspended at the await
  resolvedShutdown,  \* shutdown() calls that have resolved
  enq,               \* history: task ids in the order they were pushed on taskQueue
  disp,              \* history: task ids in the order they were posted to a unit
  inFlightAtShutdown, \* history: tasks that were in flight when shutdown() was called
  config,            \* history: the constructor's config.size and cpus().length
  status,            \* value returned by the getStatus() call just made
  result,            \* task id -> success flag of the TaskResult its unit posted
  task,              \* the WorkerTask message (or HTTP request) just handled
  reply,             \* the WorkerResult posted (or HTTP response sent) for it
  posted             \* every WorkerResult the runner's handler posted for it

vars == <<workers, taskQueue, availableWorkers, isShutdown, promise, timer,
          listener, dispatchedTo, thread, running, outbox, submitted,
          awaitingShutdown, resolvedShutdown, enq, disp, inFlightAtShutdown,
          config, status, result, task, reply, posted>>

\* a step that observes nothing: what a getStatus() call returned is kept
\* only until the next step
NoStatus == [total |-> -1, available |-> -1, queued |-> -1]

NoMessage == [type |-> "none"]

NoReply == [success |-> FALSE, error |-> "none", duration |-> -1]

Unobserved ==
  /\ status' = NoStatus
  /\ UNCHANGED <<config, result, task, reply, posted>>

\* ----------------------------------------------------------------- helpers
Max(a, b) == IF a >= b THEN a ELSE b

Range(s) == {s[i] : i \in 1..Len(s)}

Last(s) == s[Len(s)]

Front(s) == SubSeq(s, 1, Len(s) - 1)

\* position of x in sequence s, 0 when absent
IndexOf(s, x) == IF x \in Range(s) THEN CHOOSE i \in 1..Len(s) : s[i] = x ELSE 0

\* ------------------------------------------------------------- constructor
\* const size = config.size || Math.max(1, cpus().length - 1)
ConstructorSize(cfg, cpuCount) == IF cfg # 0 THEN cfg ELSE Max(1, cpuCount - 1)

\* mutant: the loop runs while i <= size
ConstructedOneMore(size) == IF size >= 0 THEN size + 1 ELSE 0

\* for (let i = 0; i < size; i++): iterations of the construction loop
Constructed(size) == IF size > 0 THEN size ELSE 0

\* unit ids: the constructor never makes more than this many
MaxUnits == Max(MaxWorkers, MaxCpus - 1)

Units == 1..MaxUnits

\* new WorkerPool(workerScript, {size: cfg}) on a machine with cpuCount cpus
Construct(cfg, cpuCount) ==
    LET n == Constructed(ConstructorSize(cfg, cpuCount)) IN
    /\ workers = [i \in 1..n |-> i]
    /\ availableWorkers = [i \in 1..n |-> i]
    /\ taskQueue = <<>>
    /\ isShutdown = FALSE
    /\ promise = [t \in TaskIds |-> "unsubmitted"]
    /\ timer = [t \in TaskIds |-> FALSE]
    /\ listener = [w \in Units |-> NoTask]
    /\ dispatchedTo = [t \in TaskIds |-> NoWorker]
    /\ thread = [w \in Units |-> IF w <= n THEN "alive" ELSE "absent"]
    /\ running = [w \in Units |-> NoTask]
    /\ outbox = [w \in Units |-> NoTask]
    /\ submitted = 0
    /\ awaitingShutdown = 0
    /\ resolvedShutdown = 0
    /\ enq = <<>>
    /\ disp = <<>>
    /\ inFlightAtShutdown = {}

\* nothing observed yet
NotRecorded == [size |-> 0, cpus |-> 0]

NoResults == [t \in TaskIds |-> "none"]

Init ==
  /\ \E cfg \in SizeConfigs, cpuCount \in CpuCounts : Construct(cfg, cpuCount)
  /\ config = NotRecorded
  /\ status = NoStatus
  /\ result = NoResults
  /\ task = NoMessage
  /\ reply = NoReply
  /\ posted = <<>>

\* ------------------------------------------------------- promise settlement
\* resolve()/reject() of a promise: only the first settlement takes effect
Settle(p, t, outcome) == IF p[t] = "pending" THEN [p EXCEPT ![t] = outcome] ELSE p

\* worker.terminate(): asks a live thread to stop; no effect otherwise
Terminate(th, w) == IF th[w] = "alive" THEN [th EXCEPT ![w] = "terminating"] ELSE th

\* worker.postMessage(task): a live thread receives it, a stopped one drops it
PostMessage(w, t) == IF thread[w] = "alive" THEN [running EXCEPT ![w] = t] ELSE running

\* mutant: available counts the busy units
getStatusBusy == [total |-> Len(workers),
                  available |-> Len(workers) - Len(availableWorkers),
                  queued |-> Len(taskQueue)]

\* getStatus()
getStatus == [total |-> Len(workers), available |-> Len(availableWorkers),
              queued |-> Len(taskQueue)]

\* ---------------------------------------------------------------- runTask
\* runTask(worker, task, resolve, reject): arm the timer, attach the
\* listeners, post the task.  tm and ls are the timers and listeners as the
\* caller leaves them.
runTask(w, t, tm, ls) ==
  /\ timer' = [tm EXCEPT ![t] = TRUE]
  /\ listener' = [ls EXCEPT ![w] = t]
  /\ dispatchedTo' = [dispatchedTo EXCEPT ![t] = w]
  /\ running' = PostMessage(w, t)
  /\ disp' = Append(disp, t)

\* mutant: pop() in place of shift()
ShiftFromTail(q) == <<Last(q), Front(q)>>

\* this.taskQueue.shift(): the entry taken and the queue left
Shift(q) == <<Head(q), Tail(q)>>

\* mutant: the unit is pushed on the idle stack even when it was given the
\* next queued task
cleanupAlsoIdle(w, t) ==
  LET tm == [timer EXCEPT ![t] = FALSE]
      ls == [listener EXCEPT ![w] = NoTask]
  IN /\ availableWorkers' = Append(availableWorkers, w)
     /\ IF taskQueue # <<>>
          THEN /\ taskQueue' = Shift(taskQueue)[2]
               /\ runTask(w, Shift(taskQueue)[1], tm, ls)
          ELSE /\ timer' = tm
               /\ listener' = ls
               /\ UNCHANGED <<taskQueue, dispatchedTo, running, disp>>

\* mutant: the queue is not looked at, the unit always goes idle
cleanupIgnoresQueue(w, t) ==
  /\ availableWorkers' = Append(availableWorkers, w)
  /\ timer' = [timer EXCEPT ![t] = FALSE]
  /\ listener' = [listener EXCEPT ![w] = NoTask]
  /\ UNCHANGED <<taskQueue, dispatchedTo, running, disp>>

\* mutant: clearTimeout() is missing
cleanupKeepsTimer(w, t) ==
  LET ls == [listener EXCEPT ![w] = NoTask]
  IN IF taskQueue # <<>>
       THEN /\ taskQueue' = Shift(taskQueue)[2]
            /\ runTask(w, Shift(taskQueue)[1], timer, ls)
            /\ UNCHANGED availableWorkers
       ELSE /\ availableWorkers' = Append(availableWorkers, w)
            /\ listener' = ls
            /\ UNCHANGED <<timer, taskQueue, dispatchedTo, running, disp>>

\* cleanup() of the runTask closure of task t on unit w
cleanup(w, t) ==
  LET tm == [timer EXCEPT ![t] = FALSE]
      ls == [listener EXCEPT ![w] = NoTask]
  IN IF taskQueue # <<>>
       THEN /\ taskQueue' = Shift(taskQueue)[2]
            /\ runTask(w, Shift(taskQueue)[1], tm, ls)
            /\ UNCHANGED availableWorkers
       ELSE /\ availableWorkers' = Append(availableWorkers, w)
            /\ timer' = tm
            /\ listener' = ls
            /\ UNCHANGED <<taskQueue, dispatchedTo, running, disp>>

\* ---------------------------------------------------------------- execute
\* mutant: unshift() in place of push()
EnqueueAtHead(t) ==
  /\ taskQueue' = <<t>> \o taskQueue
  /\ enq' = Append(enq, t)
  /\ UNCHANGED <<availableWorkers, timer, listener, dispatchedTo, running, disp>>

\* mutant: the timer is armed when the task is queued
EnqueueArmed(t) ==
  /\ taskQueue' = Append(taskQueue, t)
  /\ enq' = Append(enq, t)
  /\ timer' = [timer EXCEPT ![t] = TRUE]
  /\ UNCHANGED <<availableWorkers, listener, dispatchedTo, running, disp>>

\* this.taskQueue.push({task, resolve, reject})
Enqueue(t) ==
  /\ taskQueue' = Append(taskQueue, t)
  /\ enq' = Append(enq, t)
  /\ UNCHANGED <<availableWorkers, timer, listener, dispatchedTo, running, disp>>

\* mutant: the idle unit is read but not popped
AdmitWithoutPop(t) ==
  IF availableWorkers # <<>>
    THEN /\ runTask(Last(availableWorkers), t, timer, listener)
         /\ UNCHANGED <<availableWorkers, taskQueue, enq>>
    ELSE Enqueue(t)

\* const worker = this.availableWorkers.pop(); if (worker) runTask else push
Admit(t) ==
  IF availableWorkers # <<>>
    THEN /\ availableWorkers' = Front(availableWorkers)
         /\ runTask(Last(availableWorkers), t, timer, listener)
         /\ UNCHANGED <<taskQueue, enq>>
    ELSE Enqueue(t)

\* mutant: the return after reject() is missing
ExecuteRejectedNoReturn(t) ==
  /\ promise' = [promise EXCEPT ![t] = "rejected_shutdown"]
  /\ Admit(t)

\* mutant: a task submitted after shutdown() is rejected and queued
ExecuteRejectedQueued(t) ==
  /\ promise' = [promise EXCEPT ![t] = "rejected_shutdown"]
  /\ Enqueue(t)

\* if (this.isShutdown) { reject(...); return }
ExecuteRejected(t) ==
  /\ promise' = [promise EXCEPT ![t] = "rejected_shutdown"]
  /\ UNCHANGED <<taskQueue, availableWorkers, timer, listener, dispatchedTo,
                 running, enq, disp>>

\* execute() on a pool that is not shut down: the promise is left pending
ExecuteAdmitted(t) ==
  /\ promise' = [promise EXCEPT ![t] = "pending"]
  /\ Admit(t)

\* mutant: the isShutdown test is missing
ExecuteUnguarded(t) == ExecuteAdmitted(t)

\* the executor of the promise execute() returns, for the call numbered t
ExecuteBody(t) == IF isShutdown THEN ExecuteRejected(t) ELSE ExecuteAdmitted(t)

Execute ==
  /\ submitted < MaxTasks
  /\ submitted' = submitted + 1
  /\ ExecuteBody(submitted + 1)
  /\ UNCHANGED <<workers, isShutdown, thread, outbox, awaitingShutdown,
                 resolvedShutdown, inFlightAtShutdown>>
  /\ Unobserved

\* ------------------------------------------------------------ worker thread
\* the runner's message handler ran to its postMessage
Posts(w) ==
  /\ thread[w] = "alive"
  /\ running[w] # NoTask
  /\ outbox' = [outbox EXCEPT ![w] = running[w]]
  /\ running' = [running EXCEPT ![w] = NoTask]
  /\ UNCHANGED <<workers, taskQueue, availableWorkers, isShutdown, promise,
                 timer, listener, dispatchedTo, thread, submitted,
                 awaitingShutdown, resolvedShutdown, enq, disp,
                 inFlightAtShutdown>>

\* the unit posts a TaskResult (success or success=false alike)
WorkerFinish(w) ==
  /\ Posts(w)
  /\ Unobserved

\* the thread dies of an uncaught error while working on a task
WorkerCrash(w) ==
  /\ thread[w] = "alive"
  /\ running[w] # NoTask
  /\ thread' = [thread EXCEPT ![w] = "crashed"]
  /\ running' = [running EXCEPT ![w] = NoTask]
  /\ UNCHANGED <<workers, taskQueue, availableWorkers, isShutdown, promise,
                 timer, listener, dispatchedTo, outbox, submitted,
                 awaitingShutdown, resolvedShutdown, enq, disp,
                 inFlightAtShutdown>>
  /\ Unobserved

\* a thread asked to stop has stopped ('exit'); pending messages were
\* drained before
WorkerExit(w) ==
  /\ thread[w] = "terminating"
  /\ outbox[w] = NoTask
  /\ thread' = [thread EXCEPT ![w] = "exited"]
  /\ running' = [running EXCEPT ![w] = NoTask]
  /\ UNCHANGED <<workers, taskQueue, availableWorkers, isShutdown, promise,
                 timer, listener, dispatchedTo, outbox, submitted,
                 awaitingShutdown, resolvedShutdown, enq, disp,
                 inFlightAtShutdown>>
  /\ Unobserved

\* ------------------------------------------------------ main-thread callbacks
\* mutant: a TaskResult with success=false makes the listener terminate the unit
OnMessageTerminatesFailed(w) ==
  /\ thread[w] \in {"alive", "terminating"}
  /\ outbox[w] # NoTask
  /\ outbox' = [outbox EXCEPT ![w] = NoTask]
  /\ thread' = IF result[outbox[w]] = "failure" THEN Terminate(thread, w) ELSE thread
  /\ IF listener[w] # NoTask
       THEN /\ cleanup(w, listener[w])
            /\ promise' = Settle(promise, listener[w], "resolved")
       ELSE UNCHANGED <<taskQueue, availableWorkers, promise, timer, listener,
                        dispatchedTo, running, disp>>
  /\ UNCHANGED <<workers, isShutdown, submitted, awaitingShutdown,
                 resolvedShutdown, enq, inFlightAtShutdown>>
  /\ Unobserved

\* worker.once('message', result => { cleanup(); resolveTask(result) })
OnMessage(w) ==
  /\ thread[w] \in {"alive", "terminating"}
  /\ outbox[w] # NoTask
  /\ outbox' = [outbox EXCEPT ![w] = NoTask]
  /\ IF listener[w] # NoTask
       THEN /\ cleanup(w, listener[w])
            /\ promise' = Settle(promise, listener[w], "resolved")
       ELSE UNCHANGED <<taskQueue, availableWorkers, promise, timer, listener,
                        dispatchedTo, running, disp>>
  /\ UNCHANGED <<workers, isShutdown, thread, submitted, awaitingShutdown,
                 resolvedShutdown, enq, inFlightAtShutdown>>
  /\ Unobserved

\* worker.once('error', error => { cleanup(); rejectTask(error) }), then 'exit'
OnError(w) ==
  /\ thread[w] = "crashed"
  /\ thread' = [thread EXCEPT ![w] = "exited"]
  /\ IF listener[w] # NoTask
       THEN /\ cleanup(w, listener[w])
            /\ promise' = Settle(promise, listener[w], "rejected_error")
       ELSE UNCHANGED <<taskQueue, availableWorkers, promise, timer, listener,
                        dispatchedTo, running, disp>>
  /\ UNCHANGED <<workers, isShutdown, outbox, submitted, awaitingShutdown,
                 resolvedShutdown, enq, inFlightAtShutdown>>
  /\ Unobserved

\* mutant: the timeout is delivered as a resolved {success: false} result
OnTimeoutResolves(t) ==
  /\ timer[t]
  /\ timer' = [timer EXCEPT ![t] = FALSE]
  /\ thread' = IF dispatchedTo[t] # NoWorker THEN Terminate(thread, dispatchedTo[t])
               ELSE thread
  /\ promise' = Settle(promise, t, "resolved")
  /\ UNCHANGED <<workers, taskQueue, availableWorkers, isShutdown, listener,
                 dispatchedTo, running, outbox, submitted, awaitingShutdown,
                 resolvedShutdown, enq, disp, inFlightAtShutdown>>
  /\ Unobserved

\* mutant: a timeout stops every unit and rejects every pending call
OnTimeoutRejectsAll(t) ==
  /\ timer[t]
  /\ timer' = [timer EXCEPT ![t] = FALSE]
  /\ thread' = [w \in Units |-> Terminate(thread, w)[w]]
  /\ promise' = [u \in TaskIds |-> IF promise[u] = "pending"
                                     THEN "rejected_timeout" ELSE promise[u]]
  /\ UNCHANGED <<workers, taskQueue, availableWorkers, isShutdown, listener,
                 dispatchedTo, running, outbox, submitted, awaitingShutdown,
                 resolvedShutdown, enq, disp, inFlightAtShutdown>>
  /\ Unobserved

\* setTimeout(() => { worker.terminate(); rejectTask(timeout) }, this.timeout)
OnTimeout(t) ==
  /\ timer[t]
  /\ timer' = [timer EXCEPT ![t] = FALSE]
  /\ thread' = IF dispatchedTo[t] # NoWorker THEN Terminate(thread, dispatchedTo[t])
               ELSE thread
  /\ promise' = Settle(promise, t, "rejected_timeout")
  /\ UNCHANGED <<workers, taskQueue, availableWorkers, isShutdown, listener,
                 dispatchedTo, running, outbox, submitted, awaitingShutdown,
                 resolvedShutdown, enq, disp, inFlightAtShutdown>>
  /\ Unobserved

\* --------------------------------------------------------------- shutdown
\* mutant: only the head of the queue is rejected
RejectQueuedHead(p, q) ==
  [t \in TaskIds |-> IF q # <<>> /\ t = Head(q) /\ p[t] = "pending"
                       THEN "rejected_shutting_down" ELSE p[t]]

\* for (const queuedTask of this.taskQueue) queuedTask.reject(...)
RejectQueued(p, q) ==
  [t \in TaskIds |-> IF t \in Range(q) /\ p[t] = "pending"
                       THEN "rejected_shutting_down" ELSE p[t]]

\* this.workers.map(w => w.terminate())
TerminateAll(th, ws) ==
  [w \in Units |-> IF w \in Range(ws) THEN Terminate(th, w)[w] ELSE th[w]]

\* tasks posted to a unit whose promise is still pending
InFlight == {t \in TaskIds : promise[t] = "pending" /\ dispatchedTo[t] # NoWorker}

\* mutant: the queue is not emptied
ShutdownCallKeepsQueue ==
  /\ awaitingShutdown + resolvedShutdown < MaxShutdownCalls
  /\ isShutdown' = TRUE
  /\ promise' = RejectQueued(promise, taskQueue)
  /\ thread' = TerminateAll(thread, workers)
  /\ awaitingShutdown' = awaitingShutdown + 1
  /\ inFlightAtShutdown' = inFlightAtShutdown \cup InFlight
  /\ UNCHANGED <<workers, taskQueue, availableWorkers, timer, listener, dispatchedTo,
                 running, outbox, submitted, resolvedShutdown, enq, disp>>
  /\ Unobserved

\* shutdown() up to its await
ShutdownCall ==
  /\ awaitingShutdown + resolvedShutdown < MaxShutdownCalls
  /\ isShutdown' = TRUE
  /\ promise' = RejectQueued(promise, taskQueue)
  /\ taskQueue' = <<>>
  /\ thread' = TerminateAll(thread, workers)
  /\ awaitingShutdown' = awaitingShutdown + 1
  /\ inFlightAtShutdown' = inFlightAtShutdown \cup InFlight
  /\ UNCHANGED <<workers, availableWorkers, timer, listener, dispatchedTo,
                 running, outbox, submitted, resolvedShutdown, enq, disp>>
  /\ Unobserved

\* every terminate() promise of the earliest pending shutdown() has resolved
AllStopped == \A w \in Range(workers) : thread[w] = "exited"

\* mutant: the idle stack is not cleared
ShutdownResumeKeepsIdle ==
  /\ awaitingShutdown > 0
  /\ AllStopped
  /\ workers' = <<>>
  /\ awaitingShutdown' = awaitingShutdown - 1
  /\ resolvedShutdown' = resolvedShutdown + 1
  /\ UNCHANGED <<taskQueue, availableWorkers, isShutdown, promise, timer, listener,
                 dispatchedTo, thread, running, outbox, submitted, enq, disp,
                 inFlightAtShutdown>>
  /\ Unobserved

\* shutdown() after its await: this.workers = []; this.availableWorkers = []
ShutdownResume ==
  /\ awaitingShutdown > 0
  /\ AllStopped
  /\ workers' = <<>>
  /\ availableWorkers' = <<>>
  /\ awaitingShutdown' = awaitingShutdown - 1
  /\ resolvedShutdown' = resolvedShutdown + 1
  /\ UNCHANGED <<taskQueue, isShutdown, promise, timer, listener, dispatchedTo,
                 thread, running, outbox, submitted, enq, disp,
                 inFlightAtShutdown>>
  /\ Unobserved

\* ------------------------------------------------------------ specification
Next ==
  \/ Execute
  \/ \E w \in Units : WorkerFinish(w)
  \/ \E w \in Units : WorkerCrash(w)
  \/ \E w \in Units : WorkerExit(w)
  \/ \E w \in Units : OnMessage(w)
  \/ \E w \in Units : OnError(w)
  \/ \E t \in TaskIds : OnTimeout(t)
  \/ ShutdownCall
  \/ ShutdownResume

Spec == Init /\ [][Next]_vars

\* ------------------------------------------------- observing specifications
\* the pool's own state and its histories
pool == <<workers, taskQueue, availableWorkers, isShutdown, promise, timer,
          listener, dispatchedTo, thread, running, outbox, submitted,
          awaitingShutdown, resolvedShutdown, enq, disp, inFlightAtShutdown>>

\* a caller calls getStatus() and keeps what it returned
GetStatus ==
  /\ status' = getStatus
  /\ UNCHANGED <<pool, config, result, task, reply, posted>>

\* the runner's handler lookup and try/catch: every path posts one
\* TaskResult, with success=true or (unknown type, handler threw) success=false
ResultKinds == {"success", "failure"}

RunnerReport(w, kind) ==
  /\ Posts(w)
  /\ result' = [result EXCEPT ![running[w]] = kind]
  /\ status' = NoStatus
  /\ UNCHANGED <<config, task, reply, posted>>

\* the pool right after construction, the constructor's arguments recorded
InitConstructed ==
  \E cfg \in SizeConfigs, cpuCount \in CpuCounts :
    /\ Construct(cfg, cpuCount)
    /\ config = [size |-> cfg, cpus |-> cpuCount]
    /\ status = NoStatus
    /\ result = NoResults
    /\ task = NoMessage
    /\ reply = NoReply
    /\ posted = <<>>

\* a pool whose tasks all report in time: no timeout, crash or shutdown
NextConstructed ==
  \/ Execute
  \/ \E w \in Units : WorkerFinish(w)
  \/ \E w \in Units : OnMessage(w)
  \/ GetStatus

\* handlers return and the event loop delivers the message events
SpecConstructed ==
  /\ InitConstructed
  /\ [][NextConstructed]_vars
  /\ \A w \in Units : WF_vars(WorkerFinish(w)) /\ WF_vars(OnMessage(w))

TypeOK ==
  /\ Range(workers) \subseteq Units
  /\ Range(taskQueue) \subseteq TaskIds
  /\ Range(availableWorkers) \subseteq Units
  /\ isShutdown \in BOOLEAN
  /\ submitted \in 0..MaxTasks

\* the whole pool, with the posted TaskResults and getStatus() calls observed
NextObserved ==
  \/ submitted < MaxObservedTasks /\ Execute
  \/ \E w \in Units, kind \in ResultKinds : RunnerReport(w, kind)
  \/ \E w \in Units : WorkerCrash(w)
  \/ \E w \in Units : WorkerExit(w)
  \/ \E w \in Units : OnMessage(w)
  \/ \E w \in Units : OnError(w)
  \/ \E t \in TaskIds : OnTimeout(t)
  \/ ShutdownCall
  \/ ShutdownResume
  \/ GetStatus

SpecObserved == Init /\ [][NextObserved]_vars

\* ------------------------------------------------------- the task handlers
\* what a handler call does: it returns a value or throws an Error
Return(v) == [threw |-> FALSE, value |-> v]

Throw(m) == [threw |-> TRUE, message |-> m]

\* const fib = num => num <= 1 ? num : fib(num - 1) + fib(num - 2)
RECURSIVE fib(_)
fib(num) == IF num <= 1 THEN num ELSE fib(num - 1) + fib(num - 2)

fibonacci(data) == fib(data.n)

\* mutant: the loop stops one iteration early
RECURSIVE FibLoopShort(_, _, _, _)
FibLoopShort(i, n, a, b) == IF i < n THEN FibLoopShort(i + 1, n, b, a + b) ELSE b

\* for (let i = 2; i <= n; i++) { temp = a + b; a = b; b = temp }
RECURSIVE FibLoop(_, _, _, _)
FibLoop(i, n, a, b) == IF i <= n THEN FibLoop(i + 1, n, b, a + b) ELSE b

fibonacciIterative(data) == IF data.n <= 1 THEN data.n ELSE FibLoop(2, data.n, 0, 1)

\* for (let i = 3; i <= Math.sqrt(n); i += 2) if (n % i === 0) return false
RECURSIVE IsPrimeLoop(_, _)
IsPrimeLoop(i, n) ==
  IF i * i <= n
    THEN IF n % i = 0 THEN FALSE ELSE IsPrimeLoop(i + 2, n)
    ELSE TRUE

isPrime(data) ==
  IF data.n < 2 THEN FALSE
  ELSE IF data.n = 2 THEN TRUE
  ELSE IF data.n % 2 = 0 THEN FALSE
  ELSE IsPrimeLoop(3, data.n)

\* for (let j = i * i; j <= max; j += i) sieve[j] = false
RECURSIVE SieveInner(_, _, _, _)
SieveInner(sieve, j, i, max) ==
  IF j <= max THEN SieveInner([sieve EXCEPT ![j] = FALSE], j + i, i, max) ELSE sieve

\* mutant: the outer loop stops before the square root
RECURSIVE SieveOuterStrict(_, _, _)
SieveOuterStrict(sieve, i, max) ==
  IF i * i < max
    THEN SieveOuterStrict(IF sieve[i] THEN SieveInner(sieve, i * i, i, max) ELSE sieve,
                          i + 1, max)
    ELSE sieve

\* for (let i = 2; i <= Math.sqrt(max); i++) if (sieve[i]) { ... }
RECURSIVE SieveOuter(_, _, _)
SieveOuter(sieve, i, max) ==
  IF i * i <= max
    THEN SieveOuter(IF sieve[i] THEN SieveInner(sieve, i * i, i, max) ELSE sieve,
                    i + 1, max)
    ELSE sieve

\* for (let i = 0; i <= max; i++) if (sieve[i]) primes.push(i)
RECURSIVE Collect(_, _, _, _)
Collect(sieve, i, max, primes) ==
  IF i <= max
    THEN Collect(sieve, i + 1, max, IF sieve[i] THEN Append(primes, i) ELSE primes)
    ELSE primes

\* new Array(max + 1).fill(true); sieve[0] = sieve[1] = false
\* (new Array(k) throws a RangeError when k < 0; the two assignments grow
\* the array to length 2 when it is shorter)
NewSieve(max) == [i \in 0..Max(max, 1) |-> i >= 2]

generatePrimes(data) ==
  IF data.max + 1 < 0
    THEN Throw("Invalid array length")
    ELSE Return(Collect(SieveOuter(NewSieve(data.max), 2, data.max), 0, data.max, <<>>))

\* ------------------------------------------------------------ sort handler
\* an array element as JavaScript sees it: a number, or a one-character
\* non-numeric string given by its character code
Num(n) == [str |-> FALSE, v |-> n]

Str(c) == [str |-> TRUE, v |-> c]

\* (a, b) => a - b as Array.prototype.sort reads it: the difference of two
\* numbers; NaN, read as 0, when an operand is a non-numeric string
Compare(a, b) == IF a.str \/ b.str THEN 0 ELSE a.v - b.v

\* a <= b and a > b: numeric on numbers, lexicographic on strings, false
\* when a number meets a non-numeric string
Leq(a, b) == a.str = b.str /\ a.v <= b.v

Gt(a, b) == a.str = b.str /\ a.v > b.v

\* Array.prototype.sort(comparefn): a stable sort by comparefn
RECURSIVE InsertSorted(_, _)
InsertSorted(sorted, x) ==
  IF sorted = <<>> THEN <<x>>
  ELSE IF Compare(Last(sorted), x) > 0
    THEN Append(InsertSorted(Front(sorted), x), Last(sorted))
    ELSE Append(sorted, x)

RECURSIVE NativeSort(_)
NativeSort(arr) ==
  IF arr = <<>> THEN <<>> ELSE InsertSorted(NativeSort(Front(arr)), Last(arr))

\* mutant: merge takes the right element first
RECURSIVE MergeLoopRightFirst(_, _, _, _, _)
MergeLoopRightFirst(left, right, i, j, res) ==
  IF i <= Len(left) /\ j <= Len(right)
    THEN IF Leq(right[j], left[i])
           THEN MergeLoopRightFirst(left, right, i + 1, j, Append(res, left[i]))
           ELSE MergeLoopRightFirst(left, right, i, j + 1, Append(res, right[j]))
    ELSE res \o SubSeq(left, i, Len(left)) \o SubSeq(right, j, Len(right))

\* while (i < left.length && j < right.length) { ... }
\* return result.concat(left.slice(i)).concat(right.slice(j))
RECURSIVE MergeLoop(_, _, _, _, _)
MergeLoop(left, right, i, j, res) ==
  IF i <= Len(left) /\ j <= Len(right)
    THEN IF Leq(left[i], right[j])
           THEN MergeLoop(left, right, i + 1, j, Append(res, left[i]))
           ELSE MergeLoop(left, right, i, j + 1, Append(res, right[j]))
    ELSE res \o SubSeq(left, i, Len(left)) \o SubSeq(right, j, Len(right))

merge(left, right) == MergeLoop(left, right, 1, 1, <<>>)

RECURSIVE mergeSort(_)
mergeSort(arr) ==
  IF Len(arr) <= 1 THEN arr
  ELSE LET mid == Len(arr) \div 2
       IN merge(mergeSort(SubSeq(arr, 1, mid)), mergeSort(SubSeq(arr, mid + 1, Len(arr))))

\* arr[i] <-> arr[j], on the 0-based indices of the source
Swap(arr, i, j) == [arr EXCEPT ![i + 1] = arr[j + 1], ![j + 1] = arr[i + 1]]

RECURSIVE heapify(_, _, _)
heapify(arr, n, i) ==
  LET left == 2 * i + 1
      right == 2 * i + 2
      l1 == IF left < n /\ Gt(arr[left + 1], arr[i + 1]) THEN left ELSE i
      largest == IF right < n /\ Gt(arr[right + 1], arr[l1 + 1]) THEN right ELSE l1
  IN IF largest # i THEN heapify(Swap(arr, i, largest), n, largest) ELSE arr

\* for (let i = Math.floor(n / 2) - 1; i >= 0; i--) heapify(arr, n, i)
RECURSIVE BuildHeap(_, _)
BuildHeap(arr, i) == IF i >= 0 THEN BuildHeap(heapify(arr, Len(arr), i), i - 1) ELSE arr

\* for (let i = n - 1; i > 0; i--) { swap(arr[0], arr[i]); heapify(arr, i, 0) }
RECURSIVE Extract(_, _)
Extract(arr, i) == IF i > 0 THEN Extract(heapify(Swap(arr, 0, i), i, 0), i - 1) ELSE arr

heapSort(arr) == Extract(BuildHeap(arr, (Len(arr) \div 2) - 1), Len(arr) - 1)

Algorithms == {"quick", "merge", "heap", "absent"}

\* const arr = [...array]; switch (algorithm) { ... }: the value returned,
\* and the caller's array as the handler leaves it
sortArray(data) ==
  LET arr == data.array
  IN [value |-> CASE data.algorithm = "merge" -> mergeSort(arr)
                  [] data.algorithm = "heap" -> heapSort(arr)
                  [] OTHER -> NativeSort(arr),
      array |-> data.array]

\* -------------------------------------------------------- compress handler
\* a string is the sequence of its characters
DigitChars == <<"0", "1", "2", "3", "4", "5", "6", "7", "8", "9">>

\* `${count}`: the decimal digits of count
RECURSIVE Decimal(_)
Decimal(k) ==
  IF k < 10 THEN <<DigitChars[k + 1]>>
  ELSE Append(Decimal(k \div 10), DigitChars[(k % 10) + 1])

\* for (let i = 1; i <= input.length; i++) { ... }; input[i - 1] of the
\* source is input[i] here
RECURSIVE CompressLoop(_, _, _, _)
CompressLoop(input, i, count, res) ==
  IF i <= Len(input)
    THEN IF i < Len(input) /\ input[i + 1] = input[i]
           THEN CompressLoop(input, i + 1, count + 1, res)
           ELSE CompressLoop(input, i + 1, 1,
                             IF count > 1 THEN res \o Decimal(count) \o <<input[i]>>
                             ELSE Append(res, input[i]))
    ELSE res

compress(data) == IF data.input = <<>> THEN <<>> ELSE CompressLoop(data.input, 1, 1, <<>>)

\* -------------------------------------------------- matrixMultiply handler
DimensionMismatch == "Matrix dimensions do not match for multiplication"

\* a[0]?.length ?? 0
Cols(m) == IF Len(m) = 0 THEN 0 ELSE Len(m[1])

\* a[i]?.[k] ?? 0
At(m, i, k) == IF i \in 1..Len(m) /\ k \in 1..Len(m[i]) THEN m[i][k] ELSE 0

\* for (let k = 0; k < colsA; k++) result[i][j] += aVal * bVal
RECURSIVE Dot(_, _, _, _, _, _)
Dot(a, b, i, j, k, colsA) ==
  IF k <= colsA THEN At(a, i, k) * At(b, k, j) + Dot(a, b, i, j, k + 1, colsA) ELSE 0

\* mutant: the dimension check is left out
matrixMultiplyUnchecked(data) ==
  Return([i \in 1..Len(data.a) |->
            [j \in 1..Cols(data.b) |-> Dot(data.a, data.b, i, j, 1, Cols(data.a))]])

matrixMultiply(data) ==
  IF Cols(data.a) # Len(data.b)
    THEN Throw(DimensionMismatch)
    ELSE Return([i \in 1..Len(data.a) |->
                   [j \in 1..Cols(data.b) |-> Dot(data.a, data.b, i, j, 1, Cols(data.a))]])

\* ----------------------------------------------------- processJson handler
\* an item is null, a number or an object {id: v}
\* { ...item, _index, _timestamp: Date.now(), _processed: true } for an
\* object, { value: item, _index, ... } for anything else (null included)
Enrich(item, index, now) ==
  IF item.kind = "obj"
    THEN [id |-> item.v, _index |-> index, _timestamp |-> now, _processed |-> TRUE]
    ELSE [value |-> item, _index |-> index, _timestamp |-> now, _processed |-> TRUE]

NotNull(item) == item.kind # "null"

\* switch (transform) { enrich | filter | flatten | default }; the items of
\* the model hold no nested array, so flat(Infinity) copies them
processJson(data, now) ==
  CASE data.transform \in {"enrich", "absent"} ->
         [i \in 1..Len(data.items) |-> Enrich(data.items[i], i - 1, now)]
    [] data.transform = "filter" -> SelectSeq(data.items, NotNull)
    [] OTHER -> data.items

\* --------------------------------------------------- the runner's main loop
\* the keys of the taskHandlers object literal
taskHandlers == {"fibonacci", "fibonacciIterative", "sort", "isPrime",
                 "generatePrimes", "hash", "verifyHash", "processJson",
                 "matrixMultiply", "grayscale", "textAnalysis", "compress"}

\* taskHandlers[task.type] on an object literal: an own key gives its
\* handler, a name Object.prototype defines gives that member, anything
\* else gives undefined
Lookup(type) ==
  CASE type \in taskHandlers -> "handler"
    [] type \in {"toString", "valueOf"} -> "inherited function"
    [] type = "__proto__" -> "inherited object"
    [] OTHER -> "undefined"

\* handler(task.data), for the handlers modelled; toString and valueOf are
\* called with this undefined, Object.prototype is not callable
Call(msg, now) ==
  CASE msg.type = "fibonacci" -> Return(fibonacci(msg.data))
    [] msg.type = "fibonacciIterative" -> Return(fibonacciIterative(msg.data))
    [] msg.type = "sort" -> Return(sortArray(msg.data).value)
    [] msg.type = "isPrime" -> Return(isPrime(msg.data))
    [] msg.type = "generatePrimes" -> generatePrimes(msg.data)
    [] msg.type = "processJson" -> Return(processJson(msg.data, now))
    [] msg.type = "matrixMultiply" -> matrixMultiply(msg.data)
    [] msg.type = "compress" -> Return(compress(msg.data))
    [] msg.type = "toString" -> Return("[object Undefined]")
    [] msg.type = "valueOf" -> Throw("Cannot convert undefined or null to object")
    [] msg.type = "__proto__" -> Throw("handler is not a function")

\* the task object as the handler leaves it
After(msg) ==
  IF msg.type = "sort"
    THEN [msg EXCEPT !.data.array = sortArray(msg.data).array]
    ELSE msg

\* mutant: the two clock readings are subtracted the wrong way round
RunNegativeDuration(msg, start, now, end) ==
  IF Lookup(msg.type) = "undefined"
    THEN [success |-> FALSE, error |-> "Unknown task type: " \o msg.type,
          duration |-> start - end]
    ELSE LET r == Call(msg, now)
         IN IF r.threw
              THEN [success |-> FALSE, error |-> r.message, duration |-> start - end]
              ELSE [success |-> TRUE, data |-> r.value, duration |-> start - end]

\* parentPort.on('message', task => { try { ... } catch (error) { ... } }):
\* the WorkerResult posted, Date.now() reading start on entry and end at
\* the postMessage
Run(msg, start, now, end) ==
  IF Lookup(msg.type) = "undefined"
    THEN [success |-> FALSE, error |-> "Unknown task type: " \o msg.type,
          duration |-> end - start]
    ELSE LET r == Call(msg, now)
         IN IF r.threw
              THEN [success |-> FALSE, error |-> r.message, duration |-> end - start]
              ELSE [success |-> TRUE, data |-> r.value, duration |-> end - start]

\* mutant: the return after the unknown-type postMessage is missing, so the
\* call of the undefined handler throws and the catch posts a second result
PostedWithoutReturn(msg, start, now, end) ==
  IF Lookup(msg.type) = "undefined"
    THEN <<Run(msg, start, now, end),
           [success |-> FALSE, error |-> "handler is not a function",
            duration |-> end - start]>>
    ELSE <<Run(msg, start, now, end)>>

\* the postMessage calls of one run of the handler: the unknown-type branch
\* posts and returns, the try block posts after the handler returned, the
\* catch block posts when the handler threw
Posted(msg, start, now, end) == <<Run(msg, start, now, end)>>

\* ------------------------------------------------------- the tasks tried
RECURSIVE SeqsUpTo(_, _)
SeqsUpTo(S, n) ==
  IF n = 0 THEN {<<>>}
  ELSE LET shorter == SeqsUpTo(S, n - 1)
       IN shorter \cup {Append(q, x) : q \in shorter, x \in S}

FibTasks ==
  {[type |-> ty, data |-> [n |-> n]] :
     ty \in {"fibonacci", "fibonacciIterative"}, n \in (-2)..MaxFib}

PrimeTasks ==
  {[type |-> "isPrime", data |-> [n |-> n]] : n \in (-2)..MaxPrime}
    \cup {[type |-> "generatePrimes", data |-> [max |-> m]] : m \in (-3)..MaxPrime}

NumArrays == SeqsUpTo({Num(n) : n \in (-1)..MaxElem}, MaxLen)

StrArrays == SeqsUpTo({Str(c) : c \in 1..2}, MaxLen)

SortTasks ==
  {[type |-> "sort", data |-> [array |-> arr, algorithm |-> alg]] :
     arr \in NumArrays \cup StrArrays, alg \in Algorithms}

Strings == SeqsUpTo({"a", "b", "2"}, MaxStr)

CompressTasks == {[type |-> "compress", data |-> [input |-> str]] : str \in Strings}

\* a rows x cols matrix, filled with ones or with i + j
Matrix(rows, cols, fill) ==
  [i \in 1..rows |-> [j \in 1..cols |-> IF fill = 0 THEN 1 ELSE i + j]]

Matrices == {Matrix(r, c, f) : r \in 0..MaxDim, c \in 0..MaxDim, f \in 0..1}

MatrixTasks == {[type |-> "matrixMultiply", data |-> [a |-> a, b |-> b]] :
                  a \in Matrices, b \in Matrices}

Items == {[kind |-> "null", v |-> 0], [kind |-> "num", v |-> 7], [kind |-> "obj", v |-> 1]}

Transforms == {"enrich", "filter", "flatten", "other", "absent"}

JsonTasks ==
  {[type |-> "processJson", data |-> [items |-> its, transform |-> tr]] :
     its \in SeqsUpTo(Items, MaxItems), tr \in Transforms}

UnregisteredTypes == {"", "nope", "Fibonacci", "toString", "valueOf", "__proto__"}

UnregisteredTasks == {[type |-> ty, data |-> [n |-> 1]] : ty \in UnregisteredTypes}

Tasks == FibTasks \cup PrimeTasks \cup SortTasks \cup CompressTasks
           \cup MatrixTasks \cup JsonTasks \cup UnregisteredTasks

Times == 0..MaxClock

\* ------------------------------------------------- the runner on its own
\* a unit's message handler receives msg and posts its WorkerResult
OnTask(msg, start, now, end) ==
  /\ task' = After(msg)
  /\ reply' = Run(msg, start, now, end)
  /\ posted' = Posted(msg, start, now, end)
  /\ UNCHANGED <<pool, config, status, result>>

\* one unit, a first task posted to it
InitHandlers ==
  /\ Construct(1, 1)
  /\ config = NotRecorded
  /\ status = NoStatus
  /\ result = NoResults
  /\ task \in Tasks
  /\ reply = NoReply
  /\ posted = <<>>

\* the unit handles the task posted to it, and the same task again; after a
\* compress task it is also given every other compress task
NextHandlers ==
  \/ \E start \in Times, now \in Times, end \in Times :
       start <= now /\ now <= end /\ OnTask(task, start, now, end)
  \/ \E msg \in CompressTasks, start \in Times, end \in Times :
       /\ task.type = "compress" /\ reply # NoReply /\ msg # task
       /\ start <= end /\ OnTask(msg, start, start, end)

SpecHandlers == InitHandlers /\ [][NextHandlers]_vars

\* ------------------------------------------------- the runner in the pool
\* the unit's message handler ran on the task posted to it: its
\* WorkerResult is posted to the main thread
RunnerHandle(w, start, end) ==
  /\ Posts(w)
  /\ reply' = Run(task, start, start, end)
  /\ posted' = Posted(task, start, start, end)
  /\ task' = After(task)
  /\ result' = [result EXCEPT
                  ![running[w]] = IF reply'.success THEN "success" ELSE "failure"]
  /\ status' = NoStatus
  /\ UNCHANGED config

\* a pool of one unit; every execute() call carries the same task, a
\* matrixMultiply task or a task of an unregistered type
InitRunner ==
  /\ Construct(1, 1)
  /\ config = NotRecorded
  /\ status = NoStatus
  /\ result = NoResults
  /\ task \in MatrixTasks \cup UnregisteredTasks
  /\ reply = NoReply
  /\ posted = <<>>

NextRunner ==
  \/ submitted < MaxObservedTasks /\ Execute
  \/ \E w \in Units, start \in Times, end \in Times :
       start <= end /\ RunnerHandle(w, start, end)
  \/ \E w \in Units : OnMessage(w)

SpecRunner == InitRunner /\ [][NextRunner]_vars

\* ------------------------------------------------------- the HTTP routes
\* parseInt(req.query.x as string) || dflt: a missing parameter parses to
\* NaN, and NaN and 0 give the default
ParseIntOr(q, dflt) == IF q.given /\ q.v # 0 THEN q.v ELSE dflt

\* { ...result, worker: true }
Spread(rec, field, v) ==
  [x \in DOMAIN rec \cup {field} |-> IF x = field THEN v ELSE rec[x]]

\* res.status(400).json({ success: false, error })
BadRequest(message) == [status |-> 400, body |-> [success |-> FALSE, error |-> message]]

\* res.json(body)
Ok(body) == [status |-> 200, body |-> body]

\* next(error): the error middleware answers with the error's name and
\* message and status 500 (its timestamp is left out)
NextError(name, message) ==
  [status |-> 500, body |-> [error |-> name, message |-> message, statusCode |-> 500]]

\* what pool.execute(msg) resolves with: the WorkerResult of the unit
PoolExecute(msg, start, end) == Run(msg, start, start, end)

\* WorkerRoute.fibonacci
fibonacciRoute(req, start, end) ==
  LET n == ParseIntOr(req.query.n, 10)
  IN IF n > 45 THEN BadRequest("n must be <= 45 to prevent timeout")
     ELSE IF ~req.pooled
       THEN Ok([success |-> TRUE, data |-> fib(n), duration |-> end - start,
                worker |-> FALSE])
       ELSE Ok(Spread(PoolExecute([type |-> "fibonacci", data |-> [n |-> n]], start, end),
                      "worker", TRUE))

\* primes.slice(0, 100)
Slice100(primes) == SubSeq(primes, 1, IF Len(primes) < 100 THEN Len(primes) ELSE 100)

CountAndSample(primes) == [count |-> Len(primes), sample |-> Slice100(primes)]

\* sieve.reduce((acc, isPrime, num) => { if (isPrime) acc.push(num) }, []):
\* every index of the sieve is visited
Reduce(sieve, max) == Collect(sieve, 0, Max(max, 1), <<>>)

\* WorkerRoute.generatePrimes
generatePrimesRoute(req, start, end) ==
  LET max == ParseIntOr(req.query.max, 1000)
  IN IF max > 10000000 THEN BadRequest("max must be <= 10000000")
     ELSE IF ~req.pooled
       THEN IF max + 1 < 0
              THEN NextError("RangeError", "Invalid array length")
              ELSE Ok([success |-> TRUE,
                       data |-> CountAndSample(Reduce(SieveOuter(NewSieve(max), 2, max), max)),
                       duration |-> end - start, worker |-> FALSE])
       ELSE LET res == PoolExecute([type |-> "generatePrimes", data |-> [max |-> max]],
                                   start, end)
            IN IF res.success
                 THEN Ok(Spread([res EXCEPT !.data = CountAndSample(res.data)],
                                "worker", TRUE))
                 ELSE Ok(Spread(res, "worker", TRUE))

\* WorkerRoute.sort
sortRoute(req, start, end) ==
  IF ~req.body.isArray THEN BadRequest("array is required and must be an array")
  ELSE IF Len(req.body.array) > 1000000 THEN BadRequest("array length must be <= 1000000")
  ELSE IF ~req.pooled
    THEN Ok([success |-> TRUE, data |-> NativeSort(req.body.array),
             duration |-> end - start, worker |-> FALSE])
    ELSE Ok(Spread(PoolExecute([type |-> "sort",
                                data |-> [array |-> req.body.array,
                                          algorithm |-> req.body.algorithm]],
                               start, end),
                   "worker", TRUE))

Route(req, start, end) ==
  CASE req.type = "GET /fibonacci" -> fibonacciRoute(req, start, end)
    [] req.type = "GET /primes" -> generatePrimesRoute(req, start, end)
    [] req.type = "POST /sort" -> sortRoute(req, start, end)

\* the requests tried; pooled says whether getWorkerPool() returns a pool
Absent == [given |-> FALSE, v |-> 0]

Given(v) == [given |-> TRUE, v |-> v]

FibRequests ==
  {[type |-> "GET /fibonacci", query |-> [n |-> q], pooled |-> p] :
     q \in {Absent} \cup {Given(v) : v \in ((-2)..MaxFib) \cup {46}}, p \in BOOLEAN}

\* max is given and not 0 (a missing or zero max is the request max=1000)
PrimesRequests ==
  {[type |-> "GET /primes", query |-> [max |-> Given(v)], pooled |-> p] :
     v \in (((-3)..MaxPrime) \ {0}) \cup {10000001}, p \in BOOLEAN}

SortRequests ==
  {[type |-> "POST /sort", body |-> [array |-> arr, algorithm |-> alg, isArray |-> TRUE],
    pooled |-> p] : arr \in NumArrays \cup StrArrays, alg \in Algorithms, p \in BOOLEAN}
    \cup {[type |-> "POST /sort",
           body |-> [array |-> <<>>, algorithm |-> "absent", isArray |-> FALSE],
           pooled |-> p] : p \in BOOLEAN}

Requests == FibRequests \cup PrimesRequests \cup SortRequests

\* a route handler answers a request
OnRequest(req, start, end) ==
  /\ task' = req
  /\ reply' = Route(req, start, end)
  /\ UNCHANGED <<pool, config, status, result, posted>>

InitRoute ==
  /\ Construct(1, 1)
  /\ config = NotRecorded
  /\ status = NoStatus
  /\ result = NoResults
  /\ task \in Requests
  /\ reply = NoReply
  /\ posted = <<>>

\* the request is answered, and then sent again while the pool is in the
\* other state (enabled or disabled)
NextRoute ==
  \/ \E start \in Times, end \in Times :
       start <= end /\ reply = NoReply /\ OnRequest(task, start, end)
  \/ \E start \in Times, end \in Times :
       /\ start <= end /\ reply # NoReply
       /\ OnRequest([task EXCEPT !.pooled = ~task.pooled], start, end)

SpecRoute == InitRoute /\ [][NextRoute]_vars

\* ------------------------------------------------------------------ claims
\* steps of the pool, recognised by what only they change
ExecuteStep == submitted' = submitted + 1

ReportStep(w) == outbox[w] # NoTask /\ outbox'[w] = NoTask

ShutdownCallStep == awaitingShutdown' = awaitingShutdown + 1

ShutdownResumeStep == resolvedShutdown' = resolvedShutdown + 1

Queued == {t \in TaskIds : promise[t] = "rejected_shutting_down"}

\* C1: once shutdown() has been called, every execute() is rejected with the
\* pool-shutdown error and leaves queue, idle stack, unit table, timers and
\* units as they were: nothing is queued and nothing is posted.
C1_RejectedAfterShutdown ==
  [][(isShutdown /\ ExecuteStep) =>
       /\ promise'[submitted + 1] = "rejected_shutdown"
       /\ UNCHANGED <<taskQueue, availableWorkers, workers, timer, listener,
                      dispatchedTo, running, enq, disp>>]_vars

C1_Witness ==
  \E t \in TaskIds : promise[t] = "rejected_shutdown" /\ resolvedShutdown = 0

\* C2: execute() on a running pool with an idle unit pops exactly one unit
\* and posts the task to it; when a unit reports, it goes back on the idle
\* stack if the queue is empty and is given the head of the queue otherwise,
\* never both and never neither.
C2_DirectDispatchAndReuse ==
  [][/\ (~isShutdown /\ availableWorkers # <<>> /\ ExecuteStep) =>
          LET t == submitted + 1
              w == Last(availableWorkers)
          IN /\ availableWorkers' = Front(availableWorkers)
             /\ dispatchedTo'[t] = w
             /\ listener'[w] = t
             /\ disp' = Append(disp, t)
             /\ thread[w] = "alive" => running'[w] = t
             /\ taskQueue' = taskQueue
     /\ \A w \in Units : ReportStep(w) =>
          LET toIdle == availableWorkers' = Append(availableWorkers, w)
              toNext == /\ taskQueue # <<>>
                        /\ taskQueue' = Tail(taskQueue)
                        /\ dispatchedTo'[Head(taskQueue)] = w
                        /\ listener'[w] = Head(taskQueue)
                        /\ disp' = Append(disp, Head(taskQueue))
          IN /\ taskQueue = <<>> => (toIdle /\ disp' = disp /\ listener'[w] = NoTask)
             /\ taskQueue # <<>> => (toNext /\ availableWorkers' = availableWorkers)
             /\ ~(toIdle /\ toNext)]_vars

C2_Witness ==
  \E a, b \in TaskIds :
    /\ a \notin Range(enq) /\ promise[a] = "resolved"
    /\ b \in Range(enq) /\ dispatchedTo[b] = dispatchedTo[a]
    /\ \E w \in Range(availableWorkers) : listener[w] = NoTask /\ w # dispatchedTo[a]

\* the constructor made at least one unit
PoolHasUnits == \E w \in Units : thread[w] # "absent"

\* C3 as stated: a task queued by execute() (in a pool that has units) is
\* settled only after it was dispatched and its unit reported.
C3_PendingUntilReported ==
  [][\A t \in Range(enq) :
       (PoolHasUnits /\ promise[t] = "pending" /\ promise'[t] # "pending") =>
         (dispatchedTo[t] # NoWorker /\ promise'[t] \in {"resolved", "rejected_error"})]_vars

\* C3 amended: execute() on a running pool with no idle unit appends the
\* task at the tail of the queue and changes no unit; the promise stays
\* pending while the task is queued, and is settled either by shutdown()
\* rejecting it in the queue or, after dispatch, by its unit's report or its
\* own timeout.
C3_QueuedStaysPending ==
  [][/\ (~isShutdown /\ availableWorkers = <<>> /\ ExecuteStep) =>
          /\ taskQueue' = Append(taskQueue, submitted + 1)
          /\ promise'[submitted + 1] = "pending"
          /\ UNCHANGED <<availableWorkers, workers, thread, running, outbox,
                         listener, timer, dispatchedTo, disp>>
     /\ \A t \in Range(taskQueue') : promise'[t] = "pending"
     /\ \A t \in Range(enq) :
          (promise[t] = "pending" /\ promise'[t] # "pending") =>
            \/ t \in Range(taskQueue) /\ ShutdownCallStep
                 /\ promise'[t] = "rejected_shutting_down"
            \/ dispatchedTo[t] # NoWorker
                 /\ promise'[t] \in {"resolved", "rejected_error", "rejected_timeout"}]_vars

C3_Witness ==
  \E a, b \in Range(enq) :
    /\ a # b
    /\ promise[a] = "resolved"
    /\ promise[b] = "pending" /\ dispatchedTo[b] = dispatchedTo[a]

\* C4: queued tasks are dispatched in FIFO order: if A was queued before B
\* and B has been posted to a unit, A was posted to a unit before it.
C4_QueueFifo ==
  \A i, j \in 1..Len(enq) :
    (i < j /\ enq[j] \in Range(disp)) =>
      /\ enq[i] \in Range(disp)
      /\ IndexOf(disp, enq[i]) < IndexOf(disp, enq[j])

C4_Witness ==
  /\ Len(enq) >= 2
  /\ enq[1] \in Range(disp) /\ enq[2] \in Range(disp)
  /\ \E t \in TaskIds : promise[t] = "rejected_timeout"

\* C5: a timer is armed only for a task that has been posted to a unit: a
\* task in the queue has no armed timer and is never rejected with a timeout.
C5_TimerArmedAtDispatch ==
  /\ \A t \in TaskIds :
       (timer[t] \/ promise[t] = "rejected_timeout") => t \in Range(disp)
  /\ \A t \in Range(taskQueue) : ~timer[t] /\ promise[t] = "pending"

C5_Witness ==
  \E a, b \in Range(enq) :
    /\ promise[a] = "rejected_timeout"
    /\ b \in Range(taskQueue)

\* units of the table that can still take a task
Usable == {w \in Range(workers) : thread[w] = "alive"}

NoCrash ==
  /\ \A w \in Units : thread[w] # "crashed"
  /\ \A t \in TaskIds : promise[t] # "rejected_error"

Quiet ==
  /\ taskQueue = <<>>
  /\ InFlight = {}
  /\ \A w \in Units : thread[w] # "terminating" /\ outbox[w] = NoTask

\* C6: a timed-out unit is replaced: once the pool is quiet again after
\* timeouts (nothing queued, in flight or stopping), and it was neither shut
\* down nor hit by a crash, every unit of the table is idle and usable.
C6_TimeoutReplacesUnit ==
  (~isShutdown /\ NoCrash /\ Quiet) =>
    /\ Cardinality(Usable) = getStatus.total
    /\ getStatus.available = getStatus.total

\* C7: shutdown() rejects every queued execute() with the shutting-down
\* error and empties the queue, and once a shutdown() has resolved
\* getStatus() is {total: 0, available: 0, queued: 0}.
C7_ShutdownRejectsQueued ==
  [][/\ ShutdownCallStep =>
          /\ taskQueue' = <<>>
          /\ \A t \in Range(taskQueue) : promise'[t] = "rejected_shutting_down"
     /\ resolvedShutdown' >= 1 =>
          getStatus' = [total |-> 0, available |-> 0, queued |-> 0]]_vars

C7_Witness ==
  /\ resolvedShutdown >= 1
  /\ Cardinality(Queued) >= 2
  /\ submitted = MaxTasks

\* C8: a task in flight when shutdown() was called is never resolved with a
\* normal result afterwards.
C8_NoResultAfterShutdown ==
  [][\A t \in inFlightAtShutdown :
       promise'[t] = "resolved" => promise[t] = "resolved"]_vars

\* C9: a task in flight when shutdown() was called is not rejected with the
\* per-task timeout error, and once nothing more can happen it has been
\* rejected with a pool-shutdown error.
C9_InFlightRejectedByShutdown ==
  \A t \in inFlightAtShutdown :
    /\ promise[t] # "rejected_timeout"
    /\ (resolvedShutdown >= 1 /\ \A u \in TaskIds : ~timer[u]) =>
         promise[t] \in {"rejected_shutting_down", "rejected_shutdown"}

\* C10: a second, later or overlapping shutdown() settles no promise and
\* leaves isShutdown, queue, idle stack, unit table and units as the first
\* call left them.
C10_ShutdownIdempotent ==
  [][((isShutdown /\ ShutdownCallStep) \/ (resolvedShutdown >= 1 /\ ShutdownResumeStep)) =>
       UNCHANGED <<promise, isShutdown, taskQueue, availableWorkers, workers,
                   thread, timer, listener>>]_vars

C10_Witness ==
  /\ resolvedShutdown >= 2
  /\ Queued # {}
  /\ inFlightAtShutdown # {}

\* getStatus() of a pool of n idle units and an empty queue
FreshStatus(n) == [total |-> n, available |-> n, queued |-> 0]

\* C11: a pool constructed with size=N, N >= 1, has getStatus() =
\* {total: N, available: N, queued: 0} before any task is submitted, and
\* that is what a getStatus() call made then returns.
C11_SizedPool ==
  (config.size >= 1 /\ submitted = 0 /\ ~isShutdown) =>
    /\ getStatus = FreshStatus(config.size)
    /\ status \in {NoStatus, FreshStatus(config.size)}

C11_Witness ==
  /\ config.size = MaxWorkers
  /\ submitted = 0
  /\ status = FreshStatus(MaxWorkers)

\* C12: without an explicit size the pool has max(1, cpus - 1) units, and
\* whatever config.size is (absent, 0, positive, negative) the constructed
\* pool has total >= 1, available >= 1 and queued = 0.
C12_AtLeastOneUnit ==
  (submitted = 0 /\ ~isShutdown) =>
    /\ config.size = 0 => getStatus.total = Max(1, config.cpus - 1)
    /\ getStatus.total >= 1
    /\ getStatus.available >= 1
    /\ getStatus.queued = 0

\* the idle set, and the units with a task in flight
Idle == Range(availableWorkers)

Busy == {w \in Range(workers) :
           \E t \in TaskIds : dispatchedTo[t] = w /\ promise[t] = "pending"}

ConstructedUnits == {w \in Units : thread[w] # "absent"}

NoTimeout == \A t \in TaskIds : promise[t] # "rejected_timeout"

\* C13: while the pool is not shut down, every unit of the table is either
\* idle or busy with one task in flight, never both and never neither, so
\* |idle| + |busy| = |units| = the constructed size.
C13_IdleOrBusy ==
  ~isShutdown =>
    /\ Range(workers) = ConstructedUnits
    /\ \A w \in Range(workers) : (w \in Idle) # (w \in Busy)
    /\ Len(availableWorkers) + Cardinality(Busy) = Len(workers)

\* C14: a non-empty queue means an empty idle set: getStatus() never has
\* queued > 0 together with available > 0.
C14_QueuedMeansNoIdle ==
  /\ taskQueue # <<>> => availableWorkers = <<>>
  /\ ~(getStatus.queued > 0 /\ getStatus.available > 0)

C14_Witness ==
  /\ taskQueue # <<>>
  /\ \E t \in TaskIds : promise[t] \in {"resolved", "rejected_error"}
  /\ \E t \in Range(enq) : dispatchedTo[t] # NoWorker

GetStatusStep == status' # NoStatus

\* C15: getStatus() returns total = |units|, available = |idle|, queued =
\* |queue| of the current state and changes nothing: queue, idle set, unit
\* table, timers, isShutdown, promises, listeners and units stay as they were.
C15_GetStatusPure ==
  [][GetStatusStep =>
       /\ status' = [total |-> Len(workers),
                     available |-> Len(availableWorkers),
                     queued |-> Len(taskQueue)]
       /\ UNCHANGED <<taskQueue, availableWorkers, workers, timer, isShutdown,
                      promise, listener, dispatchedTo, thread, running, outbox>>]_vars

C15_Witness ==
  /\ status # NoStatus
  /\ status.queued >= 1
  /\ status.available = 0
  /\ \E t \in TaskIds : timer[t]

\* some event of the pool's own is still to come: a timer, a message or
\* error event, a handler still running, a unit stopping
InternalEnabled ==
  \/ \E t \in TaskIds : timer[t]
  \/ \E w \in Units :
       \/ outbox[w] # NoTask
       \/ thread[w] \in {"crashed", "terminating"}
       \/ thread[w] = "alive" /\ running[w] # NoTask

\* C16: no execute() call stays pending forever: once every timer has fired
\* or been cleared and every unit event has been delivered, no promise of a
\* pool that has units is still pending.
C16_NoCallLeftPending ==
  (PoolHasUnits /\ ~InternalEnabled) =>
    \A t \in TaskIds : promise[t] # "pending"

\* a fresh pool of n units was given n + 1 tasks and none has reported yet
Saturated(n) ==
  /\ ~isShutdown
  /\ Len(workers) = n
  /\ submitted = n + 1
  /\ \A t \in 1..(n + 1) : promise[t] = "pending"

SaturationSizes == {n \in Units : n + 1 <= MaxTasks}

\* C17: after n + 1 tasks were submitted to a fresh pool of size n and
\* before any unit reports, getStatus() is {total: n, available: 0, queued:
\* 1}; the first report of a unit dispatches the queued task to that unit,
\* and the queued task then completes.
C17_Saturation ==
  /\ [](\A n \in SaturationSizes : Saturated(n) =>
          /\ getStatus = [total |-> n, available |-> 0, queued |-> 1]
          /\ taskQueue = <<n + 1>>
          /\ Cardinality(Busy) = n)
  /\ [][\A n \in SaturationSizes, w \in Units : (Saturated(n) /\ ReportStep(w)) =>
          /\ dispatchedTo'[n + 1] = w
          /\ timer'[n + 1]
          /\ getStatus' = [total |-> n, available |-> 0, queued |-> 0]]_vars
  /\ \A n \in SaturationSizes : Saturated(n) ~> promise[n + 1] = "resolved"

C17_Witness ==
  /\ Len(workers) = MaxWorkers
  /\ submitted = MaxWorkers + 1
  /\ promise[MaxWorkers + 1] = "resolved"
  /\ enq = <<MaxWorkers + 1>>

\* the message event of unit w delivers a TaskResult with success=false
FailureReportStep(w) == ReportStep(w) /\ result[outbox[w]] = "failure"

\* C18: a handler-level failure never terminates a unit: posting and
\* delivering a success=false TaskResult leaves the unit's thread and the
\* unit table as they are, and the unit goes back on the idle stack (queue
\* empty) or is given the head of the queue, as after a success.
C18_FailureKeepsUnit ==
  [][/\ \A t \in TaskIds : (result[t] = "none" /\ result'[t] = "failure") =>
          UNCHANGED <<thread, workers, availableWorkers, taskQueue>>
     /\ \A w \in Units : FailureReportStep(w) =>
          /\ thread'[w] = thread[w]
          /\ workers' = workers
          /\ taskQueue = <<>> =>
               /\ availableWorkers' = Append(availableWorkers, w)
               /\ listener'[w] = NoTask
          /\ taskQueue # <<>> =>
               /\ availableWorkers' = availableWorkers
               /\ taskQueue' = Tail(taskQueue)
               /\ dispatchedTo'[Head(taskQueue)] = w
               /\ listener'[w] = Head(taskQueue)]_vars

C18_Witness ==
  \E t \in TaskIds, u \in Range(enq) :
    /\ result[t] = "failure" /\ promise[t] = "resolved"
    /\ dispatchedTo[u] = dispatchedTo[t]
    /\ thread[dispatchedTo[t]] = "alive" /\ running[dispatchedTo[t]] = u

\* the timer of task t fires (cleanup() clears timers too, but it also
\* detaches the listeners or stops nothing)
TimeoutStep(t) ==
  /\ timer[t] /\ ~timer'[t]
  /\ \A w \in Units : ~ReportStep(w) /\ ~(thread[w] = "crashed" /\ thread'[w] = "exited")

ErrorStep(w) == thread[w] = "crashed" /\ thread'[w] = "exited"

C20_CrashedUnitReplaced ==
  (~isShutdown /\ NoTimeout) =>
    /\ \A w \in Range(availableWorkers) : thread[w] = "alive"
    /\ Quiet => (Cardinality(Usable) = Cardinality(ConstructedUnits)
                   /\ getStatus.total = Cardinality(ConstructedUnits))

\* the runner has posted its WorkerResult for the task
Handled == reply # NoReply

\* C21: for every task type that is not a key of the handler registry the
\* unit reports {success: false, error: "Unknown task type: <type>"} with a
\* duration >= 0 and no data.
C21_UnknownTypeReported ==
  (Handled /\ task.type \notin taskHandlers) =>
    /\ ~reply.success
    /\ DOMAIN reply = {"success", "error", "duration"}
    /\ reply.error = "Unknown task type: " \o task.type
    /\ reply.duration >= 0

\* the unit handles once more the task it has just handled
SameTaskAgain == Handled /\ task' = task /\ reply' # NoReply

\* C22: executing the same task twice yields equal data: for every
\* registered type, a second run of the task just handled succeeds or fails
\* as the first did and returns the same data, whenever it runs.
C22_SameTaskSameData ==
  [][(SameTaskAgain /\ task.type \in taskHandlers) =>
       /\ reply'.success = reply.success
       /\ reply.success => reply'.data = reply.data]_vars

\* the number of elements of s equal to x
RECURSIVE Count(_, _)
Count(s, x) == IF s = <<>> THEN 0 ELSE (IF Head(s) = x THEN 1 ELSE 0) + Count(Tail(s), x)

IsAscending(s) == \A i \in 1..(Len(s) - 1) : s[i].v <= s[i + 1].v

IsPermutation(s, r) == Len(s) = Len(r) /\ \A x \in Range(s) \cup Range(r) : Count(s, x) = Count(r, x)

IntegerArray(arr) == \A i \in 1..Len(arr) : ~arr[i].str

\* C23: for every array of integers and every algorithm (quick, merge, heap
\* or absent) the sort handler returns the ascending permutation of the
\* input, the same array whatever the algorithm, and leaves the input
\* array as it was.
C23_SortsAscending ==
  /\ []((Handled /\ task.type = "sort" /\ IntegerArray(task.data.array)) =>
          /\ reply.success
          /\ IsAscending(reply.data)
          /\ IsPermutation(reply.data, task.data.array)
          /\ \A alg \in Algorithms :
               sortArray([task.data EXCEPT !.algorithm = alg]).value = reply.data)
  /\ [][(task.type = "sort" /\ task'.type = "sort" /\ ~Handled /\ reply' # NoReply) =>
          task'.data.array = task.data.array]_vars

C23_Witness ==
  /\ Handled /\ task.type = "sort" /\ task.data.algorithm = "heap"
  /\ Len(task.data.array) = MaxLen
  /\ reply.data # task.data.array
  /\ reply.data[1].v < reply.data[MaxLen].v

\* p is a prime number
Prime(p) == p >= 2 /\ \A d \in 2..(p - 1) : p % d # 0

\* C24: for every max >= 0, generatePrimes(max) is the ascending list,
\* without duplicates, of exactly the primes p with 2 <= p <= max
\* (generatePrimes(30) = [2,3,5,7,11,13,17,19,23,29]); a number n <= max is
\* in the list iff isPrime(n), and isPrime(n) is true exactly for the primes.
C24_PrimesUpToMax ==
  /\ (Handled /\ task.type = "generatePrimes" /\ task.data.max >= 0) =>
       /\ reply.success
       /\ Range(reply.data) = {p \in 2..task.data.max : Prime(p)}
       /\ \A i \in 1..(Len(reply.data) - 1) : reply.data[i] < reply.data[i + 1]
       /\ \A n \in (-2)..task.data.max : (n \in Range(reply.data)) <=> isPrime([n |-> n])
       /\ task.data.max = 30 => reply.data = <<2, 3, 5, 7, 11, 13, 17, 19, 23, 29>>
  /\ (Handled /\ task.type = "isPrime") =>
       /\ reply.success
       /\ reply.data <=> Prime(task.data.n)

C24_Witness ==
  /\ Handled /\ task.type = "generatePrimes" /\ task.data.max = 30
  /\ reply.data = <<2, 3, 5, 7, 11, 13, 17, 19, 23, 29>>

\* the Fibonacci numbers F(0) = 0, F(1) = 1, F(n) = F(n-1) + F(n-2)
RECURSIVE F(_)
F(n) == IF n = 0 THEN 0 ELSE IF n = 1 THEN 1 ELSE F(n - 1) + F(n - 2)

\* C25: for every integer n tried, negative, 0 and 1 included, the
\* recursive and the iterative fibonacci handler return the same number,
\* which is F(n) for n >= 0 (F(0) = 0, F(1) = 1, F(10) = 55).
C25_FibonacciAgree ==
  (Handled /\ task.type \in {"fibonacci", "fibonacciIterative"}) =>
    /\ reply.success
    /\ reply.data = fibonacci(task.data)
    /\ reply.data = fibonacciIterative(task.data)
    /\ task.data.n >= 0 => reply.data = F(task.data.n)
    /\ task.data.n = 0 => reply.data = 0
    /\ task.data.n = 1 => reply.data = 1
    /\ task.data.n = 10 => reply.data = 55

C25_Witness ==
  /\ Handled /\ task.type = "fibonacciIterative" /\ task.data.n = 10
  /\ reply.data = 55

\* C26: the run-length encoding of the compress handler round-trips:
\* two different inputs, inputs containing digit characters included, never
\* yield the same output.
C26_CompressInjective ==
  [][(Handled /\ task.type = "compress" /\ task'.type = "compress"
        /\ task'.data.input # task.data.input) =>
       reply'.data # reply.data]_vars

\* the task's first matrix has a column count other than the row count of
\* the second
Mismatch ==
  /\ task.type = "matrixMultiply"
  /\ Cols(task.data.a) # Len(task.data.b)

\* the unit's handler finishes and posts its WorkerResult
PostStep(w) == running[w] # NoTask /\ outbox'[w] = running[w]

\* C27: a matrixMultiply task with mismatched inner dimensions makes the
\* unit report success=false with the dimension-mismatch error and no data;
\* the unit stays alive, the call is resolved (not rejected) when the
\* report is delivered, and the unit goes idle or takes the next queued
\* task.
C27_MismatchIsAValue ==
  [][Mismatch =>
       /\ \A w \in Units : PostStep(w) =>
            /\ ~reply'.success
            /\ reply'.error = DimensionMismatch
            /\ DOMAIN reply' = {"success", "error", "duration"}
            /\ result'[running[w]] = "failure"
            /\ thread'[w] = "alive"
       /\ \A w \in Units : ReportStep(w) =>
            /\ promise[outbox[w]] = "pending"
            /\ promise'[outbox[w]] = "resolved"
            /\ thread'[w] = "alive"
            /\ taskQueue = <<>> => availableWorkers' = <<w>>
            /\ taskQueue # <<>> => running'[w] = Head(taskQueue)]_vars

C27_Witness ==
  /\ Mismatch
  /\ Len(task.data.a) = 2 /\ Cols(task.data.a) = 1 /\ Len(task.data.b) = 2
  /\ \A t \in 1..2 : promise[t] = "resolved" /\ result[t] = "failure"
  /\ dispatchedTo[1] = dispatchedTo[2]
  /\ availableWorkers = <<1>> /\ thread[1] = "alive"
  /\ reply.error = DimensionMismatch

\* the same request is answered again, by the other path
OtherPathStep == reply # NoReply /\ task'.pooled # task.pooled

Succeeded(resp) == resp.status = 200 /\ resp.body.success

\* C28: for every request the routes admit, the in-process path and the
\* pooled path compute the same output: both answer with success and the
\* same data (fibonacci number, prime count and sample, sorted array), or
\* neither does.
C28_DegradedMatchesPooled ==
  [][OtherPathStep =>
       /\ Succeeded(reply') = Succeeded(reply)
       /\ Succeeded(reply) => reply'.body.data = reply.body.data]_vars

\* C29: a timeout affects only the task whose timer fired: that call is
\* rejected with the timeout error; no other call is resolved or rejected
\* by the step, the queue and the other timers are as before, and no unit
\* other than the one the task was posted to is stopped.
C29_TimeoutOnlyItsTask ==
  [][\A t \in TaskIds : TimeoutStep(t) =>
       /\ promise[t] = "pending" => promise'[t] = "rejected_timeout"
       /\ \A u \in TaskIds \ {t} : promise'[u] = promise[u] /\ timer'[u] = timer[u]
       /\ taskQueue' = taskQueue
       /\ \A w \in Units \ {dispatchedTo[t]} :
            thread'[w] = thread[w] /\ running'[w] = running[w]]_vars

C29_Witness ==
  \E t, u, q \in TaskIds :
    /\ promise[t] = "rejected_timeout"
    /\ promise[u] = "pending" /\ dispatchedTo[u] \notin {NoWorker, dispatchedTo[t]}
    /\ thread[dispatchedTo[u]] = "alive" /\ running[dispatchedTo[u]] = u
    /\ promise[q] = "pending" /\ q \in Range(taskQueue)

\* C30: every TaskResult a unit reports has a duration, which is >= 0, on
\* the unknown-type, the handler-exception and the normal path; it carries
\* an error and no data when success=false, and no error when success=true.
C30_ResultShape ==
  Handled =>
    /\ "duration" \in DOMAIN reply /\ reply.duration >= 0
    /\ ~reply.success => ("error" \in DOMAIN reply /\ "data" \notin DOMAIN reply)
    /\ reply.success => "error" \notin DOMAIN reply
    /\ Lookup(task.type) = "undefined" => ~reply.success
    /\ (Lookup(task.type) # "undefined" /\ Call(task, 0).threw) => ~reply.success
    /\ (Lookup(task.type) # "undefined" /\ ~Call(task, 0).threw) => reply.success

C30_Witness ==
  /\ Handled /\ task.type = "generatePrimes" /\ task.data.max < -1
  /\ ~reply.success /\ reply.error = "Invalid array length"
  /\ reply.duration = MaxClock

\* C31: for every task message the unit posts exactly one TaskResult, on
\* the unknown-type, the handler-exception and the normal path.
C31_OneResultPerTask ==
  Handled =>
    /\ Len(posted) = 1
    /\ posted[1] = reply
    /\ Lookup(task.type) = "undefined" => ~posted[1].success
    /\ (Lookup(task.type) # "undefined") => (posted[1].success <=> ~Call(task, 0).threw)

C31_Witness ==
  /\ Handled /\ task.type = "nope"
  /\ posted = <<[success |-> FALSE, error |-> "Unknown task type: nope", duration |-> 0]>>

\* the positions of task t in the history of postings
Postings(t) == {i \in 1..Len(disp) : disp[i] = t}

\* task t is posted to a unit
DispatchStep(t) == Len(disp') = Len(disp) + 1 /\ Last(disp') = t

\* C32: every submitted task is posted to at most one unit and at most
\* once: it is never posted twice, never posted again after a timeout or a
\* unit error, and never posted once its call has been rejected by shutdown.
C32_PostedAtMostOnce ==
  /\ [](\A t \in TaskIds :
          /\ Cardinality(Postings(t)) <= 1
          /\ promise[t] \in {"rejected_shutting_down", "rejected_shutdown"} =>
               Postings(t) = {})
  /\ [][\A t \in TaskIds : DispatchStep(t) =>
          /\ promise[t] \in {"unsubmitted", "pending"}
          /\ dispatchedTo[t] = NoWorker
          /\ Postings(t) = {}]_vars

C32_Witness ==
  \E a, b, c \in TaskIds :
    /\ promise[a] = "rejected_timeout" /\ Cardinality(Postings(a)) = 1
    /\ promise[b] = "rejected_error" /\ Cardinality(Postings(b)) = 1
    /\ promise[c] = "rejected_shutting_down" /\ Postings(c) = {}

\* C33: each call is settled at most once, a unit's result settles only the
\* call of the task it ran, and no resolve or reject is attempted on a call
\* that is already settled: whenever the message listener, the error
\* listener or the timer of a task runs, the task's call is still pending.
C33_NoSettleAfterSettled ==
  [][/\ \A t \in TaskIds :
          (promise[t] \notin {"unsubmitted", "pending"}) => promise'[t] = promise[t]
     /\ \A w \in Units : (ReportStep(w) /\ listener[w] # NoTask) =>
          /\ outbox[w] = listener[w]
          /\ promise[listener[w]] = "pending"
     /\ \A w \in Units : (ErrorStep(w) /\ listener[w] # NoTask) =>
          promise[listener[w]] = "pending"
     /\ \A t \in TaskIds : TimeoutStep(t) => promise[t] = "pending"]_vars

\* the step posts task t to unit w
PostedTo(t, w) == DispatchStep(t) /\ dispatchedTo'[t] = w

\* C34: no unit has more than one task in flight.  An idle unit has no task
\* posted to it that is unreported, a unit holds at most one task (running
\* or finished and not yet delivered) and that task is the one its
\* listeners belong to; a task is posted to a unit only when the unit has no
\* unreported task, or in the very callback that reports its previous task.
C34_OneTaskInFlight ==
  /\ [](\A w \in Units :
          /\ w \in Range(availableWorkers) =>
               listener[w] = NoTask /\ running[w] = NoTask /\ outbox[w] = NoTask
          /\ ~(running[w] # NoTask /\ outbox[w] # NoTask)
          /\ running[w] # NoTask => listener[w] = running[w]
          /\ outbox[w] # NoTask => listener[w] = outbox[w])
  /\ [][\A t \in TaskIds : \A w \in Units : PostedTo(t, w) =>
          /\ running[w] = NoTask
          /\ \/ listener[w] = NoTask /\ outbox[w] = NoTask
             \/ /\ ReportStep(w) \/ ErrorStep(w)
                /\ outbox'[w] = NoTask]_vars

\* a unit that reported one task was posted a second one, which it is
\* running, while a third task waits
C34_Witness ==
  \E w \in Units : \E a, b, c \in TaskIds :
    /\ a # b /\ dispatchedTo[a] = w /\ dispatchedTo[b] = w
    /\ promise[a] = "resolved" /\ running[w] = b /\ thread[w] = "alive"
    /\ taskQueue = <<c>>

\* the thread of unit w was stopped by a timeout or died of an error
Terminated(w) == ~isShutdown /\ thread[w] \in {"terminating", "crashed", "exited"}

\* C35: a unit terminated by a timeout or crashed is out of service for
\* good: no step pushes it on the idle stack and no step posts a task to it.
C35_TerminatedUnitStaysOut ==
  [][\A w \in Units : Terminated(w) =>
       /\ w \in Range(availableWorkers') => w \in Range(availableWorkers)
       /\ \A t \in TaskIds : ~PostedTo(t, w)]_vars

\* C36: a report (message or error) cancels the timer of the reported task.
\* An armed timer belongs to a task that was posted, is still pending and
\* whose listeners are still on its unit, so the unit is neither idle nor
\* given a later task; a timer that fires rejects its own task only and
\* stops the unit of that task only.
C36_TimerCancelledOnReport ==
  /\ [](\A t \in TaskIds : timer[t] =>
          /\ dispatchedTo[t] # NoWorker
          /\ listener[dispatchedTo[t]] = t
          /\ promise[t] = "pending"
          /\ dispatchedTo[t] \notin Range(availableWorkers))
  /\ [][/\ \A w \in Units : (ReportStep(w) \/ ErrorStep(w)) =>
            (listener[w] # NoTask => ~timer'[listener[w]])
        /\ \A t \in TaskIds : TimeoutStep(t) =>
            /\ \A u \in TaskIds \ {t} : promise'[u] = promise[u]
            /\ \A w \in Units \ {dispatchedTo[t]} : thread'[w] = thread[w]]_vars

\* the first task was reported and resolved, its unit went on to a second
\* task and the timer of that one fired
C36_Witness ==
  \E a, b \in TaskIds : \E w \in Units :
    /\ a # b /\ dispatchedTo[a] = w /\ dispatchedTo[b] = w
    /\ promise[a] = "resolved" /\ ~timer[a]
    /\ promise[b] = "rejected_timeout"

\* the sequence holds no element twice
NoDuplicates(q) == \A i, j \in 1..Len(q) : q[i] = q[j] => i = j

\* C37: in every reachable state the idle stack holds no unit twice and
\* only units of the unit table, so 0 <= available <= total.
C37_IdleWithinTable ==
  /\ NoDuplicates(availableWorkers)
  /\ Range(availableWorkers) \subseteq Range(workers)
  /\ 0 <= getStatus.available
  /\ getStatus.available <= getStatus.total

\* a shutdown() has resolved while another one is still awaiting, after a
\* unit had gone back on the idle stack from a completion callback
C37_Witness ==
  /\ resolvedShutdown >= 1 /\ awaitingShutdown >= 1
  /\ \E t \in TaskIds : promise[t] = "resolved"
  /\ workers = <<>> /\ availableWorkers = <<>>

\* C38: once shutdown() has set isShutdown no task is posted to a unit any
\* more and the queue is empty for ever: the call that sets it empties the
\* queue, and every later step, a completion or error callback included,
\* finds the queue empty, leaves it empty and posts nothing.
C38_NothingPostedAfterShutdown ==
  /\ [](isShutdown => taskQueue = <<>>)
  /\ [][/\ isShutdown => (isShutdown' /\ disp' = disp /\ taskQueue' = <<>>)
        /\ isShutdown' => disp' = disp]_vars

\* a result and an error were delivered after shutdown() was called, to
\* calls made before it, and a call made after it was rejected: only the
\* two tasks posted before shutdown() were ever posted
C38_Witness ==
  \E a, b, c \in TaskIds :
    /\ isShutdown /\ {a, b} \subseteq inFlightAtShutdown
    /\ promise[a] = "resolved" /\ promise[b] = "rejected_error"
    /\ promise[c] = "rejected_shutdown"
    /\ Len(disp) = 2

\* C39: tasks are posted in submission order (task ids number the execute()
\* calls in order).  A unit is idle only while the queue is empty, so
\* execute() posts a task directly only when nothing waits; the history of
\* postings is ascending and every waiting task was submitted after every
\* task posted so far.
C39_PostedInSubmissionOrder ==
  /\ [](/\ ~(availableWorkers # <<>> /\ taskQueue # <<>>)
        /\ \A i, j \in 1..Len(disp) : i < j => disp[i] < disp[j]
        /\ \A t \in Range(taskQueue) : \A u \in Range(disp) : u < t)
  /\ [][(ExecuteStep /\ disp' # disp) =>
          /\ taskQueue = <<>>
          /\ disp' = Append(disp, submitted + 1)]_vars

\* the second task waited in the queue and was posted by a completion
\* callback; the third, submitted after that, was posted directly
C39_Witness ==
  /\ disp = <<1, 2, 3>>
  /\ enq = <<2>>
  /\ promise[3] = "pending"
====
